---- MODULE Spec2Model ----
(***************************************************************************)
(* Brand-audit backend (src/backend/index.js): the POST /api/audit handler *)
(* as a state machine, with the six category scorers and the aggregation   *)
(* as operators computed the way the JavaScript computes them.             *)
(*                                                                         *)
(* One request is modelled from arrival to response.  The handler is an    *)
(* async function: the code between two awaits runs to completion, so each *)
(* action is one such stretch (arrival up to the first await, the          *)
(* resumption after the website fetch, the resumption after the listing    *)
(* fetch).  The fetched pages, the fetch failures and the request body are *)
(* the inputs, drawn from the sets below.                                  *)
(*                                                                         *)
(* Representation.  Texts whose characters the code inspects (URLs, the    *)
(* listing id, the price text) are sequences of one-character strings.     *)
(* Detail texts and impact texts are TLA+ strings; Chars gives the         *)
(* characters of an impact text where the code scans it.  The title and    *)
(* the meta description are held by their length, the only thing the       *)
(* scorers read of them.  A rating is held in tenths (45 is 4.5).          *)
(* Fields of the records that nothing downstream reads (paragraphs,        *)
(* domain, timestamp, allDetails, the listing title) are left out.         *)
(***************************************************************************)
EXTENDS Integers, Sequences, FiniteSets, TLC

VARIABLES
  pc,              \* where the handler is: "idle", "awaitWebsite", "awaitAmazon", "done"
  body,            \* req.body: a record holding the fields the client sent
  url,             \* the handler's local url
  fetches,         \* the axios.get calls in call order, each with its URL and
                   \* its result: "pending", "resolved" or "rejected"
  websiteData,     \* result of scrapeWebsite
  amazonData,      \* result of scrapeAmazonASIN, Null until then
  scores,          \* the six category results
  overallScore,
  allNegatives,
  recommendations,
  sent             \* the responses written with res.json, in order

vars == << pc, body, url, fetches, websiteData, amazonData, scores,
           overallScore, allNegatives, recommendations, sent >>

---------------------------------------------------------------------------
(* JavaScript values and string primitives *)

Null == [null |-> TRUE]
EmptyObject == << >>

NaN == [nan |-> TRUE, v |-> 0]
Num(n) == [nan |-> FALSE, v |-> n]

Min(a, b) == IF a < b THEN a ELSE b
Max(a, b) == IF a > b THEN a ELSE b

Digits == {"0", "1", "2", "3", "4", "5", "6", "7", "8", "9"}

DigitValue(c) ==
  CASE c = "0" -> 0 [] c = "1" -> 1 [] c = "2" -> 2 [] c = "3" -> 3
    [] c = "4" -> 4 [] c = "5" -> 5 [] c = "6" -> 6 [] c = "7" -> 7
    [] c = "8" -> 8 [] c = "9" -> 9

\* String.prototype.startsWith
StartsWith(s, prefix) ==
  /\ Len(s) >= Len(prefix)
  /\ SubSeq(s, 1, Len(prefix)) = prefix

\* The decimal value of a run of digit characters.
RECURSIVE DigitsToInt(_)
DigitsToInt(ds) ==
  IF ds = << >> THEN 0
  ELSE 10 * DigitsToInt(SubSeq(ds, 1, Len(ds) - 1)) + DigitValue(ds[Len(ds)])

\* The longest run of digits of s that starts at position i.
RECURSIVE DigitRun(_, _)
DigitRun(s, i) ==
  IF i > Len(s) \/ s[i] \notin Digits THEN << >>
  ELSE << s[i] >> \o DigitRun(s, i + 1)

\* s.match(/\d+/)?.[0]: the leftmost longest run of digits, << >> when
\* there is none.
FirstDigitRun(s) ==
  IF \E i \in 1..Len(s) : s[i] \in Digits
  THEN LET first == CHOOSE i \in 1..Len(s) :
                      /\ s[i] \in Digits
                      /\ \A j \in 1..(i - 1) : s[j] \notin Digits
       IN DigitRun(s, first)
  ELSE << >>

\* parseFloat of a text made of digits, optionally followed by a dot (the
\* form the whole-price element has); NaN when it does not start with a
\* digit.
ParseFloat(s) ==
  IF DigitRun(s, 1) = << >> THEN NaN ELSE Num(DigitsToInt(DigitRun(s, 1)))

\* Number -> text, for a rating held in tenths.
FormatTenths(r) ==
  IF r % 10 = 0 THEN ToString(r \div 10)
  ELSE ToString(r \div 10) \o "." \o ToString(r % 10)

HTTP == << "h", "t", "t", "p" >>
HTTPS == << "h", "t", "t", "p", "s" >>
HttpsPrefix == << "h", "t", "t", "p", "s", ":", "/", "/" >>
HttpPrefix == << "h", "t", "t", "p", ":", "/", "/" >>
AmazonPrefix ==
  << "h", "t", "t", "p", "s", ":", "/", "/", "w", "w", "w", ".", "a", "m",
     "a", "z", "o", "n", ".", "c", "o", "m", "/", "d", "p", "/" >>

\* The characters of an impact text (the texts the scorers attach to a
\* Detail), for the code that scans one character by character.
Chars(s) ==
  CASE s = "High visibility signal" ->
       << "H", "i", "g", "h", " ", "v", "i", "s", "i", "b", "i", "l", "i", "t", "y", " ", "s", "i", "g", "n", "a", "l" >>
    [] s = "Missing visibility opportunity" ->
       << "M", "i", "s", "s", "i", "n", "g", " ", "v", "i", "s", "i", "b", "i", "l", "i", "t", "y", " ", "o", "p", "p", "o", "r", "t", "u", "n", "i", "t", "y" >>
    [] s = "-5% visibility" ->
       << "-", "5", "%", " ", "v", "i", "s", "i", "b", "i", "l", "i", "t", "y" >>
    [] s = "Better conversion potential" ->
       << "B", "e", "t", "t", "e", "r", " ", "c", "o", "n", "v", "e", "r", "s", "i", "o", "n", " ", "p", "o", "t", "e", "n", "t", "i", "a", "l" >>
    [] s = "-3% conversion" ->
       << "-", "3", "%", " ", "c", "o", "n", "v", "e", "r", "s", "i", "o", "n" >>
    [] s = "Better SEO + conversion" ->
       << "B", "e", "t", "t", "e", "r", " ", "S", "E", "O", " ", "+", " ", "c", "o", "n", "v", "e", "r", "s", "i", "o", "n" >>
    [] s = "-8% conversion" ->
       << "-", "8", "%", " ", "c", "o", "n", "v", "e", "r", "s", "i", "o", "n" >>
    [] s = "Better Google parsing" ->
       << "B", "e", "t", "t", "e", "r", " ", "G", "o", "o", "g", "l", "e", " ", "p", "a", "r", "s", "i", "n", "g" >>
    [] s = "-2% Google Shopping visibility" ->
       << "-", "2", "%", " ", "G", "o", "o", "g", "l", "e", " ", "S", "h", "o", "p", "p", "i", "n", "g", " ", "v", "i", "s", "i", "b", "i", "l", "i", "t", "y" >>
    [] s = "Better SEO" ->
       << "B", "e", "t", "t", "e", "r", " ", "S", "E", "O" >>
    [] s = "Confuses search engines" ->
       << "C", "o", "n", "f", "u", "s", "e", "s", " ", "s", "e", "a", "r", "c", "h", " ", "e", "n", "g", "i", "n", "e", "s" >>
    [] s = "Cannot assess Amazon visibility" ->
       << "C", "a", "n", "n", "o", "t", " ", "a", "s", "s", "e", "s", "s", " ", "A", "m", "a", "z", "o", "n", " ", "v", "i", "s", "i", "b", "i", "l", "i", "t", "y" >>
    [] s = "Top quartile visibility" ->
       << "T", "o", "p", " ", "q", "u", "a", "r", "t", "i", "l", "e", " ", "v", "i", "s", "i", "b", "i", "l", "i", "t", "y" >>
    [] s = "Competitive" ->
       << "C", "o", "m", "p", "e", "t", "i", "t", "i", "v", "e" >>
    [] s = "-15% visibility" ->
       << "-", "1", "5", "%", " ", "v", "i", "s", "i", "b", "i", "l", "i", "t", "y" >>
    [] s = "Trust signal to buyers" ->
       << "T", "r", "u", "s", "t", " ", "s", "i", "g", "n", "a", "l", " ", "t", "o", " ", "b", "u", "y", "e", "r", "s" >>
    [] s = "Building credibility" ->
       << "B", "u", "i", "l", "d", "i", "n", "g", " ", "c", "r", "e", "d", "i", "b", "i", "l", "i", "t", "y" >>
    [] s = "-10% visibility" ->
       << "-", "1", "0", "%", " ", "v", "i", "s", "i", "b", "i", "l", "i", "t", "y" >>
    [] s = "-20% visibility, low trust" ->
       << "-", "2", "0", "%", " ", "v", "i", "s", "i", "b", "i", "l", "i", "t", "y", ",", " ", "l", "o", "w", " ", "t", "r", "u", "s", "t" >>
    [] s = "-8% visibility" ->
       << "-", "8", "%", " ", "v", "i", "s", "i", "b", "i", "l", "i", "t", "y" >>
    [] s = "Cannot assess competitiveness" ->
       << "C", "a", "n", "n", "o", "t", " ", "a", "s", "s", "e", "s", "s", " ", "c", "o", "m", "p", "e", "t", "i", "t", "i", "v", "e", "n", "e", "s", "s" >>
    [] s = "Larger addressable market" ->
       << "L", "a", "r", "g", "e", "r", " ", "a", "d", "d", "r", "e", "s", "s", "a", "b", "l", "e", " ", "m", "a", "r", "k", "e", "t" >>
    [] s = "Sweet spot for margins + volume" ->
       << "S", "w", "e", "e", "t", " ", "s", "p", "o", "t", " ", "f", "o", "r", " ", "m", "a", "r", "g", "i", "n", "s", " ", "+", " ", "v", "o", "l", "u", "m", "e" >>
    [] s = "Target affluent segment" ->
       << "T", "a", "r", "g", "e", "t", " ", "a", "f", "f", "l", "u", "e", "n", "t", " ", "s", "e", "g", "m", "e", "n", "t" >>
    [] s = "Need to analyze similar products" ->
       << "N", "e", "e", "d", " ", "t", "o", " ", "a", "n", "a", "l", "y", "z", "e", " ", "s", "i", "m", "i", "l", "a", "r", " ", "p", "r", "o", "d", "u", "c", "t", "s" >>
    [] s = "Basic security requirement met" ->
       << "B", "a", "s", "i", "c", " ", "s", "e", "c", "u", "r", "i", "t", "y", " ", "r", "e", "q", "u", "i", "r", "e", "m", "e", "n", "t", " ", "m", "e", "t" >>
    [] s = "Major trust issue, -20% conversion" ->
       << "M", "a", "j", "o", "r", " ", "t", "r", "u", "s", "t", " ", "i", "s", "s", "u", "e", ",", " ", "-", "2", "0", "%", " ", "c", "o", "n", "v", "e", "r", "s", "i", "o", "n" >>
    [] s = "Brand storytelling present" ->
       << "B", "r", "a", "n", "d", " ", "s", "t", "o", "r", "y", "t", "e", "l", "l", "i", "n", "g", " ", "p", "r", "e", "s", "e", "n", "t" >>
    [] s = "-5% conversion (buyers want context)" ->
       << "-", "5", "%", " ", "c", "o", "n", "v", "e", "r", "s", "i", "o", "n", " ", "(", "b", "u", "y", "e", "r", "s", " ", "w", "a", "n", "t", " ", "c", "o", "n", "t", "e", "x", "t", ")" >>
    [] s = "Reduces support friction" ->
       << "R", "e", "d", "u", "c", "e", "s", " ", "s", "u", "p", "p", "o", "r", "t", " ", "f", "r", "i", "c", "t", "i", "o", "n" >>
    [] s = "-5% conversion (questions unanswered)" ->
       << "-", "5", "%", " ", "c", "o", "n", "v", "e", "r", "s", "i", "o", "n", " ", "(", "q", "u", "e", "s", "t", "i", "o", "n", "s", " ", "u", "n", "a", "n", "s", "w", "e", "r", "e", "d", ")" >>
    [] s = "-3% conversion, support friction" ->
       << "-", "3", "%", " ", "c", "o", "n", "v", "e", "r", "s", "i", "o", "n", ",", " ", "s", "u", "p", "p", "o", "r", "t", " ", "f", "r", "i", "c", "t", "i", "o", "n" >>
    [] s = "Removes purchase friction" ->
       << "R", "e", "m", "o", "v", "e", "s", " ", "p", "u", "r", "c", "h", "a", "s", "e", " ", "f", "r", "i", "c", "t", "i", "o", "n" >>
    [] s = "+3-8% conversion" ->
       << "+", "3", "-", "8", "%", " ", "c", "o", "n", "v", "e", "r", "s", "i", "o", "n" >>
    [] s = "Better CTR in search results" ->
       << "B", "e", "t", "t", "e", "r", " ", "C", "T", "R", " ", "i", "n", " ", "s", "e", "a", "r", "c", "h", " ", "r", "e", "s", "u", "l", "t", "s" >>
    [] s = "-3% CTR" ->
       << "-", "3", "%", " ", "C", "T", "R" >>
    [] s = "Better search result display" ->
       << "B", "e", "t", "t", "e", "r", " ", "s", "e", "a", "r", "c", "h", " ", "r", "e", "s", "u", "l", "t", " ", "d", "i", "s", "p", "l", "a", "y" >>
    [] s = "-2% CTR" ->
       << "-", "2", "%", " ", "C", "T", "R" >>
    [] s = "Better keyword relevance signal" ->
       << "B", "e", "t", "t", "e", "r", " ", "k", "e", "y", "w", "o", "r", "d", " ", "r", "e", "l", "e", "v", "a", "n", "c", "e", " ", "s", "i", "g", "n", "a", "l" >>
    [] s = "+2-3% Google visibility" ->
       << "+", "2", "-", "3", "%", " ", "G", "o", "o", "g", "l", "e", " ", "v", "i", "s", "i", "b", "i", "l", "i", "t", "y" >>
    [] s = "-5% keyword visibility" ->
       << "-", "5", "%", " ", "k", "e", "y", "w", "o", "r", "d", " ", "v", "i", "s", "i", "b", "i", "l", "i", "t", "y" >>
    [] s = "Provide Amazon ASIN for keyword gap analysis" ->
       << "P", "r", "o", "v", "i", "d", "e", " ", "A", "m", "a", "z", "o", "n", " ", "A", "S", "I", "N", " ", "f", "o", "r", " ", "k", "e", "y", "w", "o", "r", "d", " ", "g", "a", "p", " ", "a", "n", "a", "l", "y", "s", "i", "s" >>
    [] s = "+5-10% conversion" ->
       << "+", "5", "-", "1", "0", "%", " ", "c", "o", "n", "v", "e", "r", "s", "i", "o", "n" >>
    [] s = "Acceptable" ->
       << "A", "c", "c", "e", "p", "t", "a", "b", "l", "e" >>
    [] s = "-15% conversion, -5% SEO ranking" ->
       << "-", "1", "5", "%", " ", "c", "o", "n", "v", "e", "r", "s", "i", "o", "n", ",", " ", "-", "5", "%", " ", "S", "E", "O", " ", "r", "a", "n", "k", "i", "n", "g" >>
    [] s = "-3-5% conversion on slow networks" ->
       << "-", "3", "-", "5", "%", " ", "c", "o", "n", "v", "e", "r", "s", "i", "o", "n", " ", "o", "n", " ", "s", "l", "o", "w", " ", "n", "e", "t", "w", "o", "r", "k", "s" >>
    [] s = "Security + ranking boost" ->
       << "S", "e", "c", "u", "r", "i", "t", "y", " ", "+", " ", "r", "a", "n", "k", "i", "n", "g", " ", "b", "o", "o", "s", "t" >>
    [] s = "-20% conversion, -10% SEO" ->
       << "-", "2", "0", "%", " ", "c", "o", "n", "v", "e", "r", "s", "i", "o", "n", ",", " ", "-", "1", "0", "%", " ", "S", "E", "O" >>
    [] s = "Use Google PageSpeed Insights for full analysis" ->
       << "U", "s", "e", " ", "G", "o", "o", "g", "l", "e", " ", "P", "a", "g", "e", "S", "p", "e", "e", "d", " ", "I", "n", "s", "i", "g", "h", "t", "s", " ", "f", "o", "r", " ", "f", "u", "l", "l", " ", "a", "n", "a", "l", "y", "s", "i", "s" >>

---------------------------------------------------------------------------
(* Utility functions *)

\* value.length: a string has one, a number has none (undefined), and
\* undefined / 1024 is NaN.  JsString and JsNumber tag the two kinds of
\* value a caller can pass.
JsString(len) == [type |-> "string", length |-> len]
JsNumber(n) == [type |-> "number", value |-> n]

LengthOf(value) == IF value.type = "string" THEN Num(value.length) ELSE NaN

\* a < b on JavaScript numbers: false as soon as one side is NaN.
LessThan(a, b) == ~a.nan /\ ~b.nan /\ a.v < b.v
GreaterThan(a, b) == ~a.nan /\ ~b.nan /\ a.v > b.v
AtLeast(a, b) == ~a.nan /\ ~b.nan /\ a.v >= b.v

\* estimatePageSpeed(html): sizeKB = html.length / 1024, and sizeKB < k is
\* html.length < k * 1024.
estimatePageSpeed(html) ==
  LET size == LengthOf(html)
  IN IF LessThan(size, Num(300 * 1024)) THEN 85
     ELSE IF LessThan(size, Num(500 * 1024)) THEN 75
     ELSE IF LessThan(size, Num(800 * 1024)) THEN 65
     ELSE 55

---------------------------------------------------------------------------
(* Scraping functions *)

\* scrapeWebsite after the fetch: the signal record read off the page.  A
\* page is given by what the selectors and substring tests find in it:
\* page.contains is the set of marker substrings present (lower-cased where
\* the code lower-cases).
WebsiteSignals(page, u) ==
  [ titleLen           |-> IF page.titleLen > 0 THEN page.titleLen
                           ELSE Len("No title found"),
    descriptionLen     |-> page.descriptionLen,
    h1Count            |-> page.h1,
    images             |-> page.img,
    productImages      |-> page.productImg,
    hasSSL             |-> StartsWith(u, HTTPS),
    hasAbout           |-> "about us" \in page.contains,
    hasFAQ             |-> "faq" \in page.contains,
    hasContactInfo     |-> "contact" \in page.contains \/ "support" \in page.contains,
    hasReturnPolicy    |-> "return" \in page.contains \/ "refund" \in page.contains,
    hasLiveChat        |-> "tawk" \in page.contains \/ "drift" \in page.contains,
    hasSchema          |-> "schema.org" \in page.contains \/ "@context" \in page.contains,
    descriptionQuality |-> page.keywordMatches,
    pageSize           |-> page.length ]

\* text.replace(/[$,]/g, "")
RECURSIVE StripPrice(_)
StripPrice(s) ==
  IF s = << >> THEN << >>
  ELSE IF Head(s) \in {"$", ","} THEN StripPrice(Tail(s))
  ELSE << Head(s) >> \o StripPrice(Tail(s))

NA == << "N", "/", "A" >>

\* scrapeAmazonASIN when its fetch succeeded: the listing record read off
\* the page (rating and reviewCount already "|| 0"-defaulted numbers).
ListingFound(asin, page) ==
  [ asin        |-> asin,
    rating      |-> page.rating,
    reviewCount |-> page.reviewCount,
    price       |-> IF StripPrice(page.priceText) = << >> THEN NA
                    ELSE StripPrice(page.priceText),
    url         |-> AmazonPrefix \o asin,
    found       |-> TRUE ]

\* scrapeAmazonASIN's catch branch.
ListingNotFound(asin, message) ==
  [ asin |-> asin, found |-> FALSE, error |-> message ]

---------------------------------------------------------------------------
(* Scoring engine *)

Detail(plus, text, impact) == [plus |-> plus, text |-> text, impact |-> impact]

\* One rule's effect: what it adds to score and what it pushes on details.
Rule(delta, details) == [delta |-> delta, details |-> details]

\* !amazonData.found, also for the empty object that stands in for null.
Found(a) == "found" \in DOMAIN a /\ a.found

scoreProductDataQuality(w) ==
  LET r1 == IF w.images >= 6
            THEN Rule(20, << Detail(TRUE,
                     "Good image count: " \o ToString(w.images) \o " images",
                     "High visibility signal") >>)
            ELSE IF w.images >= 3
            THEN Rule(10, << Detail(FALSE,
                     "Only " \o ToString(w.images) \o " images (target: 6+)",
                     "Missing visibility opportunity") >>)
            ELSE Rule(0, << Detail(FALSE,
                     "Too few images: " \o ToString(w.images),
                     "-5% visibility") >>)
      r2 == IF w.productImages >= 3
            THEN Rule(15, << Detail(TRUE,
                     ToString(w.productImages) \o " dedicated product images",
                     "Better conversion potential") >>)
            ELSE Rule(-5, << Detail(FALSE,
                     "Only " \o ToString(w.productImages) \o " product-specific images",
                     "-3% conversion") >>)
      r3 == IF w.descriptionQuality > 50
            THEN Rule(20, << Detail(TRUE, "Rich descriptions with specifications",
                     "Better SEO + conversion") >>)
            ELSE IF w.descriptionQuality > 20
            THEN Rule(10, << Detail(FALSE, "Descriptions could be more detailed",
                     "-3% conversion") >>)
            ELSE Rule(-10, << Detail(FALSE, "Minimal product descriptions",
                     "-8% conversion") >>)
      r4 == IF w.hasSchema
            THEN Rule(15, << Detail(TRUE, "Schema markup detected",
                     "Better Google parsing") >>)
            ELSE Rule(0, << Detail(FALSE, "No schema markup found",
                     "-2% Google Shopping visibility") >>)
      r5 == IF w.h1Count = 1
            THEN Rule(10, << Detail(TRUE, "Good heading structure (1 H1)",
                     "Better SEO") >>)
            ELSE IF w.h1Count > 1
            THEN Rule(-5, << Detail(FALSE,
                     "Multiple H1 tags (" \o ToString(w.h1Count) \o ")",
                     "Confuses search engines") >>)
            ELSE Rule(0, << >>)
      score == 0 + r1.delta + r2.delta + r3.delta + r4.delta + r5.delta
  IN [ score    |-> Min(score, 100),
       maxScore |-> 100,
       details  |-> r1.details \o r2.details \o r3.details \o r4.details \o r5.details,
       category |-> "Product Data & Content Quality",
       impact   |-> "+12-18% visibility" ]

scoreReviewMetrics(a) ==
  IF ~Found(a)
  THEN [ score      |-> 0,
         maxScore   |-> 100,
         details    |-> << Detail(FALSE, "ASIN not found or not provided",
                                  "Cannot assess Amazon visibility") >>,
         category   |-> "Review Authority & Trust",
         impact     |-> "N/A - No Amazon listing found",
         amazonData |-> Null ]
  ELSE
  LET r1 == IF a.rating >= 45
            THEN Rule(25, << Detail(TRUE,
                     "Strong rating: " \o FormatTenths(a.rating) \o "/5 stars",
                     "Top quartile visibility") >>)
            ELSE IF a.rating >= 40
            THEN Rule(15, << Detail(TRUE,
                     "Good rating: " \o FormatTenths(a.rating) \o "/5 stars",
                     "Competitive") >>)
            ELSE IF a.rating >= 35
            THEN Rule(5, << Detail(FALSE,
                     "Below average: " \o FormatTenths(a.rating) \o "/5 stars",
                     "-5% visibility") >>)
            ELSE Rule(0, << Detail(FALSE,
                     "Poor rating: " \o FormatTenths(a.rating) \o "/5 stars",
                     "-15% visibility") >>)
      r2 == IF a.reviewCount >= 200
            THEN Rule(25, << Detail(TRUE,
                     "Strong review volume: " \o ToString(a.reviewCount) \o " reviews",
                     "Trust signal to buyers") >>)
            ELSE IF a.reviewCount >= 50
            THEN Rule(15, << Detail(TRUE,
                     "Decent review volume: " \o ToString(a.reviewCount) \o " reviews",
                     "Building credibility") >>)
            ELSE IF a.reviewCount >= 10
            THEN Rule(5, << Detail(FALSE,
                     "Limited reviews: " \o ToString(a.reviewCount),
                     "-10% visibility") >>)
            ELSE Rule(0, << Detail(FALSE,
                     "Very few reviews: " \o ToString(a.reviewCount),
                     "-20% visibility, low trust") >>)
      r3 == IF a.reviewCount > 0 /\ a.reviewCount < 20
            THEN Rule(0, << Detail(FALSE, "Low review velocity (need more reviews)",
                     "-8% visibility") >>)
            ELSE Rule(0, << >>)
      score == 50 + r1.delta + r2.delta
  IN [ score      |-> Min(score, 100),
       maxScore   |-> 100,
       details    |-> r1.details \o r2.details \o r3.details,
       category   |-> "Review Authority & Trust",
       impact     |-> "+15-25% visibility, +10-20% conversion",
       amazonData |-> a ]

\* A pricing check that forgets the "N/A" sentinel.
PriceUnavailableNoSentinel(a) == ~Found(a)

\* !amazonData.found || amazonData.price === "N/A"
PriceUnavailable(a) == ~Found(a) \/ a.price = NA

scorePricingStrategy(a) ==
  IF PriceUnavailable(a)
  THEN [ score      |-> 50,
         maxScore   |-> 100,
         details    |-> << Detail(FALSE, "Price data unavailable",
                                  "Cannot assess competitiveness") >>,
         category   |-> "Pricing & Competitive Positioning",
         impact     |-> "Unknown",
         amazonData |-> Null ]
  ELSE
  LET price == ParseFloat(a.price)
      shown == IF price.nan THEN "NaN" ELSE ToString(price.v)
      r1 == IF GreaterThan(price, Num(0)) /\ LessThan(price, Num(50))
            THEN Rule(15, << Detail(TRUE, "Budget-friendly price: $" \o shown,
                     "Larger addressable market") >>)
            ELSE IF AtLeast(price, Num(50)) /\ LessThan(price, Num(200))
            THEN Rule(20, << Detail(TRUE, "Mid-range price: $" \o shown,
                     "Sweet spot for margins + volume") >>)
            ELSE Rule(10, << Detail(TRUE, "Premium price: $" \o shown,
                     "Target affluent segment") >>)
      r2 == Rule(0, << Detail(FALSE,
                  "Price competitiveness: Cannot compare without competitor data",
                  "Need to analyze similar products") >>)
      score == 60 + r1.delta
  IN [ score      |-> Min(score, 100),
       maxScore   |-> 100,
       details    |-> r1.details \o r2.details,
       category   |-> "Pricing & Competitive Positioning",
       impact     |-> "+5-12% visibility, +15-35% conversion",
       amazonData |-> a ]

scoreTrustSignals(w) ==
  LET r1 == IF w.hasSSL
            THEN Rule(20, << Detail(TRUE, "SSL/HTTPS detected",
                     "Basic security requirement met") >>)
            ELSE Rule(0, << Detail(FALSE, "No SSL certificate (HTTP)",
                     "Major trust issue, -20% conversion") >>)
      r2 == IF w.hasAbout
            THEN Rule(20, << Detail(TRUE, "About Us page found",
                     "Brand storytelling present") >>)
            ELSE Rule(0, << Detail(FALSE, "No About Us page",
                     "-5% conversion (buyers want context)") >>)
      r3 == IF w.hasFAQ
            THEN Rule(15, << Detail(TRUE, "FAQ section present",
                     "Reduces support friction") >>)
            ELSE Rule(0, << Detail(FALSE, "No FAQ section",
                     "-5% conversion (questions unanswered)") >>)
      r4 == IF w.hasContactInfo
            THEN Rule(20, << Detail(TRUE, "Contact info accessible",
                     "Trust signal to buyers") >>)
            ELSE Rule(0, << Detail(FALSE, "Contact info hard to find",
                     "-3% conversion, support friction") >>)
      r5 == IF w.hasReturnPolicy
            THEN Rule(15, << Detail(TRUE, "Return policy visible",
                     "Removes purchase friction") >>)
            ELSE Rule(0, << Detail(FALSE, "Return policy unclear or missing",
                     "-8% conversion") >>)
      r6 == IF w.hasLiveChat
            THEN Rule(10, << Detail(TRUE, "Live chat/support detected",
                     "+3-8% conversion") >>)
            ELSE Rule(0, << >>)
      score == 0 + r1.delta + r2.delta + r3.delta + r4.delta + r5.delta + r6.delta
  IN [ score    |-> Min(score, 100),
       maxScore |-> 100,
       details  |-> r1.details \o r2.details \o r3.details \o r4.details
                      \o r5.details \o r6.details,
       category |-> "Trust, Credibility & Support",
       impact   |-> "+8-18% conversion, +5-12% repeat purchases" ]

scoreKeywordOptimization(w) ==
  LET r1 == IF w.titleLen > 0 /\ w.titleLen > 30
            THEN Rule(15, << Detail(TRUE, "Title tag present and descriptive",
                     "Better CTR in search results") >>)
            ELSE Rule(0, << Detail(FALSE, "Title tag too short or generic",
                     "-3% CTR") >>)
      r2 == IF w.descriptionLen > 0 /\ w.descriptionLen > 100
            THEN Rule(15, << Detail(TRUE, "Meta description complete",
                     "Better search result display") >>)
            ELSE Rule(0, << Detail(FALSE, "Meta description missing or too short",
                     "-2% CTR") >>)
      r3 == IF w.h1Count = 1
            THEN Rule(15, << Detail(TRUE, "Proper heading hierarchy detected",
                     "Better keyword relevance signal") >>)
            ELSE Rule(0, << >>)
      r4 == IF w.hasSchema
            THEN Rule(10, << Detail(TRUE, "Schema markup aids keyword parsing",
                     "+2-3% Google visibility") >>)
            ELSE Rule(0, << Detail(FALSE, "No schema markup found",
                     "-5% keyword visibility") >>)
      r5 == Rule(0, << Detail(FALSE,
                  "Limited keyword analysis (need specific ASIN for Amazon keywords)",
                  "Provide Amazon ASIN for keyword gap analysis") >>)
      score == 50 + r1.delta + r2.delta + r3.delta + r4.delta
  IN [ score    |-> Min(score, 100),
       maxScore |-> 100,
       details  |-> r1.details \o r2.details \o r3.details \o r4.details \o r5.details,
       category |-> "Keyword Optimization & SEO",
       impact   |-> "+8-15% visibility, +20-30% discoverability" ]

\* The speed proxy scoreTechnicalPerformance computes:
\* estimatePageSpeed(websiteData.pageSize), the argument being the number
\* pageSize, not the markup.
speedScore(w) == estimatePageSpeed(JsNumber(w.pageSize))

scoreTechnicalPerformance(w) ==
  LET r1 == IF speedScore(w) >= 80
            THEN Rule(25, << Detail(TRUE,
                     "Fast page load (estimated: " \o ToString(speedScore(w)) \o "/100)",
                     "+5-10% conversion") >>)
            ELSE IF speedScore(w) >= 60
            THEN Rule(15, << Detail(TRUE,
                     "Moderate page speed (estimated: " \o ToString(speedScore(w)) \o "/100)",
                     "Acceptable") >>)
            ELSE Rule(-10, << Detail(FALSE,
                     "Slow page load (estimated: " \o ToString(speedScore(w)) \o "/100)",
                     "-15% conversion, -5% SEO ranking") >>)
      r2 == IF w.images > 15
            THEN Rule(0, << Detail(FALSE,
                     "Many images (" \o ToString(w.images) \o ") may slow page",
                     "-3-5% conversion on slow networks") >>)
            ELSE Rule(0, << >>)
      r3 == IF w.hasSSL
            THEN Rule(15, << Detail(TRUE, "HTTPS/SSL enabled",
                     "Security + ranking boost") >>)
            ELSE Rule(-10, << Detail(FALSE, "Not using HTTPS",
                     "-20% conversion, -10% SEO") >>)
      r4 == Rule(0, << Detail(FALSE,
                  "Detailed metrics limited (Core Web Vitals require live testing)",
                  "Use Google PageSpeed Insights for full analysis") >>)
      score == 0 + r1.delta + r2.delta + r3.delta
  IN [ score    |-> Min(Max(score, 0), 100),
       maxScore |-> 100,
       details  |-> r1.details \o r2.details \o r3.details \o r4.details,
       category |-> "Technical Performance & Site Health",
       impact   |-> "+5-15% conversion, +3-8% SEO ranking" ]

---------------------------------------------------------------------------
(* Aggregation (the tail of the audit handler) *)

\* Math.floor in the place of Math.round.
MathFloor(sum, n) == sum \div n

\* Math.round(sum / n) for an integer sum and n > 0: floor(sum / n + 1/2).
MathRound(sum, n) == (2 * sum + n) \div (2 * n)

RECURSIVE SumScores(_)
SumScores(ss) ==
  IF ss = << >> THEN 0 ELSE ss[1].score + SumScores(Tail(ss))

IsNegative(d) == ~d.plus

\* scores.flatMap((s) => s.details.filter((d) => !d.plus))
RECURSIVE FlatNegatives(_)
FlatNegatives(ss) ==
  IF ss = << >> THEN << >>
  ELSE SelectSeq(ss[1].details, IsNegative) \o FlatNegatives(Tail(ss))

\* array.slice(0, n)
Slice(s, n) == SubSeq(s, 1, Min(n, Len(s)))

\* The collection without its slice.
CollectNegativesUncapped(ss) == FlatNegatives(ss)

CollectNegatives(ss) == Slice(FlatNegatives(ss), 10)

Recommendation(neg) ==
  [issue |-> neg.text, impact |-> neg.impact, priority |-> "HIGH"]

\* Every impact text a scorer attaches to a Detail.
ImpactTexts ==
  { "High visibility signal", "Missing visibility opportunity",
    "-5% visibility", "Better conversion potential", "-3% conversion",
    "Better SEO + conversion", "-8% conversion", "Better Google parsing",
    "-2% Google Shopping visibility", "Better SEO",
    "Confuses search engines", "Cannot assess Amazon visibility",
    "Top quartile visibility", "Competitive", "-15% visibility",
    "Trust signal to buyers", "Building credibility", "-10% visibility",
    "-20% visibility, low trust", "-8% visibility",
    "Cannot assess competitiveness", "Larger addressable market",
    "Sweet spot for margins + volume", "Target affluent segment",
    "Need to analyze similar products", "Basic security requirement met",
    "Major trust issue, -20% conversion", "Brand storytelling present",
    "-5% conversion (buyers want context)", "Reduces support friction",
    "-5% conversion (questions unanswered)",
    "-3% conversion, support friction", "Removes purchase friction",
    "+3-8% conversion", "Better CTR in search results", "-3% CTR",
    "Better search result display", "-2% CTR",
    "Better keyword relevance signal", "+2-3% Google visibility",
    "-5% keyword visibility",
    "Provide Amazon ASIN for keyword gap analysis", "+5-10% conversion",
    "Acceptable", "-15% conversion, -5% SEO ranking",
    "-3-5% conversion on slow networks", "Security + ranking boost",
    "-20% conversion, -10% SEO",
    "Use Google PageSpeed Insights for full analysis" }

\* parseFloat(impact.match(/\d+/)?.[0] || 0)
ParseImpact(chars) ==
  LET run == FirstDigitRun(chars)
  IN IF run = << >> THEN 0 ELSE DigitsToInt(run)

\* ParseImpact of each impact text, computed once.
MagnitudeOf == [s \in ImpactTexts |-> ParseImpact(Chars(s))]

Magnitude(impact) == MagnitudeOf[impact]

\* The comparator: negative when a goes before b.
Compare(a, b) == Magnitude(b.impact) - Magnitude(a.impact)

\* An insertion that puts r in front of the elements it ties with, as an
\* unstable sort may.
RECURSIVE InsertSortedUnstable(_, _)
InsertSortedUnstable(sorted, r) ==
  IF sorted = << >> THEN << r >>
  ELSE IF Compare(Head(sorted), r) < 0
       THEN << Head(sorted) >> \o InsertSortedUnstable(Tail(sorted), r)
       ELSE << r >> \o sorted

\* Array.prototype.sort is a stable sort: r goes behind every element the
\* comparator does not put after it.
RECURSIVE InsertSorted(_, _)
InsertSorted(sorted, r) ==
  IF sorted = << >> THEN << r >>
  ELSE IF Compare(Head(sorted), r) <= 0
       THEN << Head(sorted) >> \o InsertSorted(Tail(sorted), r)
       ELSE << r >> \o sorted

RECURSIVE SortByImpact(_)
SortByImpact(rs) ==
  IF rs = << >> THEN << >>
  ELSE InsertSorted(SortByImpact(SubSeq(rs, 1, Len(rs) - 1)), rs[Len(rs)])

MapRecommendations(negs) == [i \in 1..Len(negs) |-> Recommendation(negs[i])]

BuildRecommendations(negs) == SortByImpact(MapRecommendations(negs))

RunScorers(w, a) ==
  << scoreProductDataQuality(w),
     scoreReviewMetrics(IF a = Null THEN EmptyObject ELSE a),
     scorePricingStrategy(IF a = Null THEN EmptyObject ELSE a),
     scoreTrustSignals(w),
     scoreKeywordOptimization(w),
     scoreTechnicalPerformance(w) >>

OverallScore(ss) == MathRound(SumScores(ss), Len(ss))

-------------------------------------------------------------------------------------------------------------------------------------------------
(* Inputs *)

MaxH1 == 2

WebsiteUrls ==
  { << >>,
    << "a", ".", "c", "o" >>,
    HttpPrefix \o << "a", ".", "c", "o" >>,
    HttpsPrefix \o << "a", ".", "c", "o" >>,
    << "h", "t", "t", "p", "b", "i", "n", ".", "o", "r", "g" >> }

ASINs == { << >>, << "B", "0" >> }

\* error.message of a failed axios.get
FetchErrors == { "timeout of 10000ms exceeded", "Request failed with status code 404" }

\* The marker substrings a page holds: none, all, or all but one.
MarkerSets ==
  LET all == {"about us", "faq", "contact", "return", "tawk", "schema.org"}
  IN { s \in SUBSET all : s = {} \/ Cardinality(all \ s) <= 1 }

\* Title and meta description: none and short, or both long.
Heads == { [titleLen |-> 0, descriptionLen |-> 100],
           [titleLen |-> 31, descriptionLen |-> 101] }

WebsitePages ==
  { [ length         |-> len,
      titleLen       |-> head.titleLen,
      descriptionLen |-> head.descriptionLen,
      h1             |-> h1,
      img            |-> img,
      productImg     |-> productImg,
      keywordMatches |-> keywordMatches,
      contains       |-> contains ] :
    len \in {299 * 1024, 300 * 1024}, head \in Heads, h1 \in 0..MaxH1,
    img \in {2, 3, 6, 16}, productImg \in {2, 3},
    keywordMatches \in {20, 21, 51}, contains \in MarkerSets }

ListingPages ==
  [ rating      : {0, 35, 45},
    reviewCount : {10, 200},
    priceText   : { << >>, << "$", "1", ",", "2", "9", "9", "." >> } ]

---------------------------------------------------------------------------
(* The audit handler: app.post("/api/audit") *)

\* A test of presence alone, "" passing it.
TruthyWhenPresent(b, field) == field \in DOMAIN b

\* A destructured body field is truthy when it is present and not "".
Truthy(b, field) == field \in DOMAIN b /\ b[field] # << >>

\* fetchHTML(u) calls axios.get and awaits it.
StartFetch(fs, u) == Append(fs, [url |-> u, result |-> "pending"])

\* The awaited axios.get, the last one started, resolves or rejects.
Settle(fs, result) == [fs EXCEPT ![Len(fs)].result = result]

Init ==
  /\ pc = "idle"
  /\ body = Null
  /\ url = << >>
  /\ fetches = << >>
  /\ websiteData = Null
  /\ amazonData = Null
  /\ scores = << >>
  /\ overallScore = 0
  /\ allNegatives = << >>
  /\ recommendations = << >>
  /\ sent = << >>

\* A handler that starts the listing fetch together with the website
\* fetch instead of after it.
HandleConcurrent(b) ==
  /\ body' = b
  /\ IF ~Truthy(b, "websiteUrl")
     THEN /\ sent' = Append(sent, [status |-> 400,
                                   body |-> [error |-> "Website URL required"]])
          /\ pc' = "done"
          /\ UNCHANGED << url, fetches >>
     ELSE /\ url' = IF ~StartsWith(b.websiteUrl, HTTP)
                    THEN HttpsPrefix \o b.websiteUrl
                    ELSE b.websiteUrl
          /\ fetches' = IF Truthy(b, "amazonASIN")
                        THEN StartFetch(StartFetch(fetches, url'),
                                        AmazonPrefix \o b.amazonASIN)
                        ELSE StartFetch(fetches, url')
          /\ pc' = "awaitWebsite"
          /\ UNCHANGED sent
  /\ UNCHANGED << websiteData, amazonData, scores, overallScore,
                  allNegatives, recommendations >>

\* The request arrives with body b: validation, the scheme prefix, and the
\* call of scrapeWebsite up to its await of fetchHTML.
Handle(b) ==
  /\ body' = b
  /\ IF ~Truthy(b, "websiteUrl")
     THEN /\ sent' = Append(sent, [status |-> 400,
                                   body |-> [error |-> "Website URL required"]])
          /\ pc' = "done"
          /\ UNCHANGED << url, fetches >>
     ELSE /\ url' = IF ~StartsWith(b.websiteUrl, HTTP)
                    THEN HttpsPrefix \o b.websiteUrl
                    ELSE b.websiteUrl
          /\ fetches' = StartFetch(fetches, url')
          /\ pc' = "awaitWebsite"
          /\ UNCHANGED sent
  /\ UNCHANGED << websiteData, amazonData, scores, overallScore,
                  allNegatives, recommendations >>

Receive ==
  /\ pc = "idle"
  /\ \/ \E u \in WebsiteUrls, a \in ASINs :
          Handle([websiteUrl |-> u, amazonASIN |-> a])
     \/ \E u \in WebsiteUrls : Handle([websiteUrl |-> u])
     \/ \E a \in ASINs : Handle([amazonASIN |-> a])

\* The report of the success path.
Report(ss, overall, recs) ==
  [ overallScore       |-> overall,
    websiteUrl         |-> url,
    amazonASIN         |-> IF Truthy(body, "amazonASIN") THEN body.amazonASIN
                           ELSE Null,
    categories         |-> ss,
    topRecommendations |-> Slice(recs, 5) ]

\* Scoring, aggregation and res.json(report), for the signal records w and a.
Complete(w, a) ==
  /\ scores' = RunScorers(w, a)
  /\ overallScore' = OverallScore(scores')
  /\ allNegatives' = CollectNegatives(scores')
  /\ recommendations' = BuildRecommendations(allNegatives')
  /\ sent' = Append(sent,
       [ status |-> 200,
         body   |-> Report(scores', overallScore', recommendations') ])
  /\ pc' = "done"

\* The handler's catch: res.status(500).json(...) with the error's message.
Fail(message) ==
  /\ sent' = Append(sent,
       [ status |-> 500,
         body   |-> [ error   |-> message,
                      details |-> "Failed to complete audit. Check URL and try again." ] ])
  /\ pc' = "done"

\* What fetchHTML throws when axios.get rejected with error.message m.
FetchFailure(m) == "Failed to fetch URL: " \o m

\* The website fetch resolves with a page: scrapeWebsite returns; then
\* either scrapeAmazonASIN is called (up to its await) or the report is
\* built and sent.
WebsiteFetched ==
  /\ pc = "awaitWebsite"
  /\ \E page \in WebsitePages :
       /\ websiteData' = WebsiteSignals(page, url)
       /\ IF Truthy(body, "amazonASIN")
          THEN /\ fetches' = StartFetch(Settle(fetches, "resolved"),
                                        AmazonPrefix \o body.amazonASIN)
               /\ pc' = "awaitAmazon"
               /\ UNCHANGED << amazonData, scores, overallScore, allNegatives,
                               recommendations, sent >>
          ELSE /\ fetches' = Settle(fetches, "resolved")
               /\ Complete(websiteData', amazonData)
               /\ UNCHANGED amazonData
  /\ UNCHANGED << body, url >>

\* A failure path that fetches the website a second time before giving up.
WebsiteFetchFailedRetry ==
  /\ pc = "awaitWebsite"
  /\ IF Len(fetches) < 2
     THEN /\ fetches' = StartFetch(Settle(fetches, "rejected"), url)
          /\ UNCHANGED << pc, sent >>
     ELSE /\ fetches' = Settle(fetches, "rejected")
          /\ \E m \in FetchErrors : Fail(FetchFailure(m))
  /\ UNCHANGED << body, url, websiteData, amazonData, scores,
                  overallScore, allNegatives, recommendations >>

\* The website fetch rejects: fetchHTML throws, scrapeWebsite rejects and
\* the handler's catch answers 500.
WebsiteFetchFailed ==
  /\ pc = "awaitWebsite"
  /\ fetches' = Settle(fetches, "rejected")
  /\ \E m \in FetchErrors : Fail(FetchFailure(m))
  /\ UNCHANGED << body, url, websiteData, amazonData, scores,
                  overallScore, allNegatives, recommendations >>

\* The listing fetch resolves: scrapeAmazonASIN returns the found record.
AmazonFetched ==
  /\ pc = "awaitAmazon"
  /\ fetches' = Settle(fetches, "resolved")
  /\ \E page \in ListingPages :
       /\ amazonData' = ListingFound(body.amazonASIN, page)
       /\ Complete(websiteData, amazonData')
  /\ UNCHANGED << body, url, websiteData >>

\* A listing failure that escapes scrapeAmazonASIN and reaches the
\* handler's catch.
AmazonFetchFailedPropagates ==
  /\ pc = "awaitAmazon"
  /\ fetches' = Settle(fetches, "rejected")
  /\ \E m \in FetchErrors : Fail(FetchFailure(m))
  /\ UNCHANGED << body, url, websiteData, amazonData, scores,
                  overallScore, allNegatives, recommendations >>

\* The listing fetch rejects: scrapeAmazonASIN's catch returns found: false.
AmazonFetchFailed ==
  /\ pc = "awaitAmazon"
  /\ fetches' = Settle(fetches, "rejected")
  /\ \E m \in FetchErrors :
       /\ amazonData' = ListingNotFound(body.amazonASIN, FetchFailure(m))
       /\ Complete(websiteData, amazonData')
  /\ UNCHANGED << body, url, websiteData >>

Next ==
  \/ Receive
  \/ WebsiteFetched
  \/ WebsiteFetchFailed
  \/ AmazonFetched
  \/ AmazonFetchFailed

Spec == Init /\ [][Next]_vars

---------------------------------------------------------------------------
(* Properties *)

\* Scoring has run (the success path reached the scorers).
Scored == scores # << >>

\* The listing record the two listing scorers were given.
ListingGiven == IF amazonData = Null THEN EmptyObject ELSE amazonData

WebsiteFetchRejected == Len(fetches) >= 1 /\ fetches[1].result = "rejected"
ListingFetchRejected == Len(fetches) >= 2 /\ fetches[2].result = "rejected"

\* A response is a report when it carries the report's fields.
IsReport(r) ==
  \/ r.status = 200
  \/ {"overallScore", "categories", "topRecommendations"} \cap DOMAIN r.body # {}

\* C1: each of the six scorers returns a score within [0, 100].
C1_ScoresWithinRange ==
  Scored => \A i \in 1..6 : scores[i].score >= 0 /\ scores[i].score <= 100

\* C2: the Technical Performance scorer derives the speed proxy from
\* pageSize: below 300KB proxy 85, +25 and a positive detail; from 300KB to
\* below 800KB proxy 75 or 65, +15 and a positive detail; from 800KB on
\* proxy 55, -10 and a negative detail.
C2_SpeedFromPageSize ==
  Scored =>
    LET size == websiteData.pageSize
        tech == scores[6]
        proxies == IF size < 300 * 1024 THEN {85}
                   ELSE IF size < 800 * 1024 THEN {75, 65}
                   ELSE {55}
        delta == IF size < 300 * 1024 THEN 25
                 ELSE IF size < 800 * 1024 THEN 15
                 ELSE -10
        ssl == IF websiteData.hasSSL THEN 15 ELSE -10
    IN /\ speedScore(websiteData) \in proxies
       /\ tech.details[1].plus = (size < 800 * 1024)
       /\ tech.score = Min(Max(delta + ssl, 0), 100)

\* C3: a non-empty websiteUrl that begins with neither "http://" nor
\* "https://" is fetched, and reported, as "https://" followed by it; one
\* with a scheme is fetched unchanged.
C3_SchemePrefixed ==
  Len(fetches) >= 1 =>
    LET given == body.websiteUrl
        expected == IF StartsWith(given, HttpPrefix) \/ StartsWith(given, HttpsPrefix)
                    THEN given
                    ELSE HttpsPrefix \o given
    IN /\ fetches[1].url = expected
       /\ Scored => sent[1].body.websiteUrl = expected

\* C4: when the website fetch fails the request ends with one response,
\* HTTP 500 with an error message and the fixed details hint; no report is
\* sent, and the website fetch was attempted exactly once.
C4_WebsiteFetchFailureIsTerminal ==
  WebsiteFetchRejected =>
    /\ pc = "done"
    /\ Len(sent) = 1
    /\ sent[1].status = 500
    /\ sent[1].body.error \in { "Failed to fetch URL: " \o m : m \in FetchErrors }
    /\ sent[1].body.details = "Failed to complete audit. Check URL and try again."
    /\ \A i \in 1..Len(sent) : ~IsReport(sent[i])
    /\ ~Scored
    /\ Len(fetches) = 1

C4_Witness == pc = "done" /\ WebsiteFetchRejected

\* C5: when a listing id was supplied, the website fetch succeeded and the
\* listing fetch failed, scrapeAmazonASIN returned found = false and the
\* request completed with HTTP 200 and a six-category report.
C5_ListingFailureDegrades ==
  ListingFetchRejected =>
    /\ fetches[1].result = "resolved"
    /\ amazonData # Null
    /\ amazonData.found = FALSE
    /\ pc = "done"
    /\ Len(sent) = 1
    /\ sent[1].status = 200
    /\ Len(sent[1].body.categories) = 6
    /\ {"overallScore", "categories", "topRecommendations"} \subseteq DOMAIN sent[1].body

C5_Witness == pc = "done" /\ ListingFetchRejected /\ Truthy(body, "amazonASIN")

OneNegativeDetail(s) == Len(s.details) = 1 /\ s.details[1].plus = FALSE

\* C6: with a listing record that is not found, or the empty object of a
\* request without listing id, scoreReviewMetrics returns score 0 with one
\* negative detail and scorePricingStrategy score 50 with one negative
\* detail; scorePricingStrategy returns the same for a found listing whose
\* price is "N/A".
C6_ListingAbsentShapes ==
  Scored =>
    /\ ~Found(ListingGiven) =>
         /\ scores[2].score = 0
         /\ OneNegativeDetail(scores[2])
         /\ scores[3].score = 50
         /\ OneNegativeDetail(scores[3])
    /\ (Found(ListingGiven) /\ amazonData.price = << "N", "/", "A" >>) =>
         /\ scores[3].score = 50
         /\ OneNegativeDetail(scores[3])

C6_Witness ==
  /\ Scored
  /\ amazonData # Null
  /\ amazonData.found
  /\ amazonData.price = << "N", "/", "A" >>

SixScoreSum ==
  scores[1].score + scores[2].score + scores[3].score
    + scores[4].score + scores[5].score + scores[6].score

\* C7: overallScore is the mean of the six scores rounded to the nearest
\* integer, a half rounding up: overallScore - 1/2 <= sum/6 <
\* overallScore + 1/2.  The scores 80, 0, 65, 70, 65, 30 give 52.
C7_OverallIsRoundedMean ==
  /\ Scored =>
       /\ 6 * overallScore - 3 <= SixScoreSum
       /\ SixScoreSum < 6 * overallScore + 3
       /\ sent[1].body.overallScore = overallScore
  /\ OverallScore(<< [score |-> 80], [score |-> 0], [score |-> 65],
                     [score |-> 70], [score |-> 65], [score |-> 30] >>) = 52

\* The mean falls exactly on a half.
C7_Witness == Scored /\ SixScoreSum % 6 = 3

\* All details, in category order then within-category order.
AllDetails ==
  scores[1].details \o scores[2].details \o scores[3].details
    \o scores[4].details \o scores[5].details \o scores[6].details

\* For each position of the details ds, the number of negative details up
\* to and including it, there being `before` of them ahead of ds.
RECURSIVE RanksAfter(_, _)
RanksAfter(ds, before) ==
  IF ds = << >> THEN << >>
  ELSE LET rank == IF Head(ds).plus THEN before ELSE before + 1
       IN << rank >> \o RanksAfter(Tail(ds), rank)

NegativeRanks(ds) == RanksAfter(ds, 0)

\* The positions of the negative details that come after the tenth
\* negative one, rank being NegativeRanks(ds).
BeyondTenth(ds, rank) == { i \in 1..Len(ds) : ~ds[i].plus /\ rank[i] > 10 }

TopRecommendations == sent[1].body.topRecommendations

AsRecommendation(d) == [issue |-> d.text, impact |-> d.impact, priority |-> "HIGH"]

\* C8: allNegatives is the first 10 negative details in category order then
\* within-category order; topRecommendations has at most 5 entries, each the
\* issue/impact of one of them with priority "HIGH"; a negative detail
\* beyond the tenth never appears.
C8_NegativesCappedAtTen ==
  Scored =>
    LET all == AllDetails
        rank == NegativeRanks(all)
        top == TopRecommendations
        collected == [ n \in 1..Len(allNegatives) |-> AsRecommendation(allNegatives[n]) ]
    IN /\ Len(allNegatives) <= 10
       /\ Len(allNegatives) = Min(10, Cardinality({ i \in 1..Len(all) : ~all[i].plus }))
       /\ \A i \in 1..Len(all) :
            (~all[i].plus /\ rank[i] <= 10) => allNegatives[rank[i]] = all[i]
       /\ Len(top) <= 5
       /\ \A k \in 1..Len(top) : \E n \in 1..Len(collected) : top[k] = collected[n]
       /\ \A i \in BeyondTenth(all, rank) :
            \A k \in 1..Len(top) : top[k] # AsRecommendation(all[i])

\* A negative detail beyond the tenth outweighs a recommendation that made
\* the top 5.
C8_Witness ==
  /\ Scored
  /\ LET all == AllDetails
         top == TopRecommendations
     IN \E i \in BeyondTenth(all, NegativeRanks(all)) :
          \E k \in 1..Len(top) :
            Magnitude(all[i].impact) > Magnitude(top[k].impact)

\* C9: the recommendations are the collected negatives ordered descending
\* by the first integer of the impact text (0 without digits), entries of
\* equal magnitude in their collected order; topRecommendations is the
\* first 5.  (Stated on neighbours: the magnitudes never increase from one
\* entry to the next, so entries of equal magnitude are contiguous, and
\* the order of all pairs follows from the order of neighbours.)
C9_StableDescendingSort ==
  /\ Scored =>
       LET n == Len(allNegatives)
           collected == [ i \in 1..n |-> AsRecommendation(allNegatives[i]) ]
           \* the position each recommendation had in the collected negatives
           from == [ k \in 1..Len(recommendations) |->
                     CHOOSE i \in 1..n : collected[i] = recommendations[k] ]
           mag == [ k \in 1..Len(recommendations) |->
                    Magnitude(recommendations[k].impact) ]
       IN /\ Len(recommendations) = n
          /\ \A i \in 1..n : \E k \in 1..n : recommendations[k] = collected[i]
          /\ \A i \in 1..(n - 1) :
               /\ mag[i] >= mag[i + 1]
               /\ mag[i] = mag[i + 1] => from[i] < from[i + 1]
          /\ TopRecommendations = SubSeq(recommendations, 1, Min(5, n))
  /\ Magnitude("Major trust issue, -20% conversion") = 20
  /\ Magnitude("-15% conversion, -5% SEO ranking") = 15
  /\ Magnitude("-3-5% conversion on slow networks") = 3
  /\ Magnitude("Confuses search engines") = 0

\* The sort moved an entry forward, and left entries of equal magnitude,
\* with and without a number, side by side.
C9_Witness ==
  /\ Scored
  /\ \E i, j \in 1..Len(allNegatives) :
       i < j /\ Magnitude(allNegatives[i].impact) < Magnitude(allNegatives[j].impact)
  /\ \E i \in 1..(Len(recommendations) - 1) :
       /\ Magnitude(recommendations[i].impact) > 0
       /\ Magnitude(recommendations[i].impact) = Magnitude(recommendations[i + 1].impact)
  /\ \E i \in 1..(Len(recommendations) - 1) :
       /\ Magnitude(recommendations[i].impact) = 0
       /\ Magnitude(recommendations[i + 1].impact) = 0

NoWebsiteUrl == body # Null /\ ~("websiteUrl" \in DOMAIN body /\ body.websiteUrl # << >>)

\* C10: a request whose body has no websiteUrl (missing or empty) is
\* answered with HTTP 400 and {error: "Website URL required"}, and no
\* fetch and no scoring is performed for it.
C10_MissingUrlIs400 ==
  NoWebsiteUrl =>
    /\ pc = "done"
    /\ sent = << [status |-> 400, body |-> [error |-> "Website URL required"]] >>
    /\ fetches = << >>
    /\ websiteData = Null
    /\ amazonData = Null
    /\ ~Scored

C10_Witness ==
  /\ pc = "done"
  /\ "websiteUrl" \in DOMAIN body
  /\ body.websiteUrl = << >>
  /\ Len(sent) = 1

\* C11: the listing fetch is started only after the website fetch has
\* resolved and only when a listing id was supplied; after a failed website
\* fetch it is never started; the scorers run only once every started fetch
\* has settled; and the request gets exactly one response (400, 200 or
\* 500): never two, one exactly when the handler has finished, and until
\* then the handler is waiting for nothing but the request or a fetch that
\* is still pending (and settles, by its timeout).
C11_FetchOrderAndSingleResponse ==
  /\ Len(fetches) <= 2
  /\ Len(fetches) = 2 =>
       /\ fetches[1].result = "resolved"
       /\ "amazonASIN" \in DOMAIN body
       /\ body.amazonASIN # << >>
       /\ fetches[2].url = AmazonPrefix \o body.amazonASIN
  /\ WebsiteFetchRejected => Len(fetches) = 1
  /\ Scored =>
       /\ Len(fetches) >= 1
       /\ fetches[1].result = "resolved"
       /\ \A i \in 1..Len(fetches) : fetches[i].result # "pending"
  /\ Len(sent) <= 1
  /\ (pc = "done") <=> (Len(sent) = 1)
  /\ \A i \in 1..Len(sent) : sent[i].status \in {400, 200, 500}
  /\ pc = "idle" => body = Null /\ fetches = << >>
  /\ pc \in {"awaitWebsite", "awaitAmazon"} =>
       /\ Len(fetches) = (IF pc = "awaitWebsite" THEN 1 ELSE 2)
       /\ fetches[Len(fetches)].result = "pending"
  /\ pc = "done" => \A i \in 1..Len(fetches) : fetches[i].result # "pending"
  /\ pc \in {"idle", "awaitWebsite", "awaitAmazon", "done"}

\* Both fetches were made and settled, and the one response was sent.
C11_Witness ==
  /\ pc = "done"
  /\ Len(fetches) = 2
  /\ fetches[2].result = "resolved"
  /\ Scored
  /\ Len(sent) = 1

====
